---- MODULE Spec2Model ----
(***************************************************************************)
(* Model of src/src/mix.rs: PPCAMix, a mixture of probabilistic-PCA        *)
(* components, and its two log-domain stabilizers.                         *)
(*                                                                         *)
(* Numbers.  The code computes in f64.  The model computes in the extended *)
(* non-negative rationals with exact arithmetic (no rounding):             *)
(*   - a linear-domain number is a pair <<n, d>>: the rational n/d (d > 0, *)
(*     lowest terms), +infinity as <<1, 0>> and NaN as <<0, 0>>;           *)
(*   - a log-domain number is a record [ln |-> q]: the real ln(q), with    *)
(*     -infinity = ln(0), +infinity = ln(+infinity), NaN = ln(NaN).        *)
(* f64 `+` and `-` on log-domain numbers are then products and quotients   *)
(* of the q's, with the IEEE special cases: -inf - -inf = NaN is 0/0,      *)
(* inf - inf = NaN is inf/inf, -inf + inf = NaN is 0 * inf.                *)
(***************************************************************************)
EXTENDS Integers, Sequences, FiniteSets, TLC

VARIABLES mix, call, ret, built, trace, job

vars == <<mix, call, ret, built, trace, job>>

\* ------------------------------------------------------------------ bounds
MaxK == 2
MaxN == 2
MaxIter == 1
MaxArgs == 3

\* ------------------------------------------------------------- arithmetic
NaN == <<0, 0>>
PosInf == <<1, 0>>
Zero == <<0, 1>>
One == <<1, 1>>

RECURSIVE GCD(_, _)
GCD(a, b) == IF b = 0 THEN a ELSE GCD(b, a % b)

Norm(n, d) ==
    IF d = 0 THEN (IF n = 0 THEN NaN ELSE PosInf)
    ELSE LET g == GCD(n, d) IN <<n \div g, d \div g>>

IsNaN(q) == q = NaN

\* linear-domain f64 `+` (operands are never negative here)
LinAdd(a, b) ==
    IF IsNaN(a) \/ IsNaN(b) THEN NaN
    ELSE IF a = PosInf \/ b = PosInf THEN PosInf
    ELSE Norm(a[1] * b[2] + b[1] * a[2], a[2] * b[2])

\* linear-domain f64 `*`
LinMul(a, b) == Norm(a[1] * b[1], a[2] * b[2])

\* f64 `<` on two non-NaN numbers
Less(a, b) == a[1] * b[2] < b[1] * a[2]

\* f64::max: a NaN operand is ignored
FMax(a, b) ==
    IF IsNaN(a) THEN b
    ELSE IF IsNaN(b) THEN a
    ELSE IF Less(a, b) THEN b ELSE a

Log(q) == [ln |-> q]
LogNaN == Log(NaN)
NegInf == Log(Zero)
LogInf == Log(PosInf)

\* f64::exp and f64::ln (the argument of ln is a sum of exponentials, >= 0)
Exp(x) == x.ln
Ln(q) == Log(q)

\* f64 `+` and `-` on log-domain numbers
LogAdd(x, y) == Log(Norm(x.ln[1] * y.ln[1], x.ln[2] * y.ln[2]))
LogSub(x, y) == Log(Norm(x.ln[1] * y.ln[2], x.ln[2] * y.ln[1]))

RECURSIVE SumFrom(_, _)
SumFrom(s, i) == IF i > Len(s) THEN Zero ELSE LinAdd(s[i], SumFrom(s, i + 1))
\* Iterator::sum::<f64>() over a sequence of linear-domain numbers
Sum(s) == SumFrom(s, 1)

RECURSIVE MaxFrom(_, _)
MaxFrom(s, i) ==
    IF i = Len(s) THEN s[i].ln ELSE FMax(s[i].ln, MaxFrom(s, i + 1))
\* DVector::max of a non-empty vector of log-domain numbers
VecMax(data) == Log(MaxFrom(data, 1))

\* a log-softmax that forgets the normalizer
softmax_unnormalized(data) ==
    LET max == VecMax(data)
    IN  [i \in 1..Len(data) |-> LogSub(data[i], max)]

\* ------------------------------------------------------------ stabilizers
robust_log_softmax(data) ==
    LET max == VecMax(data)
        log_norm == Ln(Sum([i \in 1..Len(data) |-> Exp(LogSub(data[i], max))]))
    IN  [i \in 1..Len(data) |-> LogSub(LogSub(data[i], max), log_norm)]

robust_log_softnorm(data) ==
    LET max == VecMax(data)
        log_norm == Ln(Sum([i \in 1..Len(data) |-> Exp(LogSub(data[i], max))]))
    IN  LogAdd(max, log_norm)

\* element-wise `llks + &self.log_weights`
VecAdd(a, b) == [i \in 1..Len(a) |-> LogAdd(a[i], b[i])]

\* ------------------------------------------- the single-component model
\* PPCAModel is opaque to the mixture.  A component is identified by its
\* parameters (param), its static descriptors, the number of weighted
\* updates applied to it (fits) and whether it is in canonical form.
Component(size, state, npar, param) ==
    [output_size |-> size, state_size |-> state, n_parameters |-> npar,
     param |-> param, fits |-> 0, canonical |-> FALSE]

\* the components a caller hands to PPCAMix::new
Catalogue == {Component(2, 1, 5, 1), Component(2, 2, 7, 2), Component(3, 1, 7, 1)}

\* the kinds of (partially observed) sample a dataset is made of
SampleKinds == 1..3

\* PPCAModel::llks, one sample: the log-likelihood a component of the given
\* parameters reports for a sample of the given kind.  Kind 1 is an ordinary
\* sample, kind 2 is impossible under param 1, kind 3 is degenerate under
\* param 1.
ComponentLlk(c, s) ==
    IF c.param = 1
    THEN CASE s = 1 -> Log(One) [] s = 2 -> NegInf [] OTHER -> LogNaN
    ELSE CASE s = 1 -> Log(<<2, 1>>) [] s = 2 -> Log(One) [] OTHER -> Log(<<2, 1>>)

\* PPCAModel::llks(dataset): one entry per sample, in dataset order
ComponentLlks(c, dataset) == [i \in 1..Len(dataset) |-> ComponentLlk(c, dataset[i])]

\* a fully observed sample built from a plain vector
unmasked(v) == [vector |-> v, mask |-> [d \in 1..Len(v) |-> TRUE]]

\* the vector of a sample, unobserved coordinates filled with 0.0
masked_vector(sample) ==
    [d \in 1..Len(sample.vector) |->
        IF sample.mask[d] THEN sample.vector[d] ELSE Zero]

\* PPCAModel::smooth(dataset): one fully observed reconstruction per sample
ComponentSmooth(c, dataset) ==
    [i \in 1..Len(dataset) |->
        unmasked([d \in 1..c.output_size |-> <<10 * c.param + dataset[i] + d, 1>>])]

\* PPCAModel::extrapolate(dataset): one fully observed imputation per sample
ComponentExtrapolate(c, dataset) ==
    [i \in 1..Len(dataset) |->
        unmasked([d \in 1..c.output_size |-> <<50 + 10 * c.param + dataset[i] + d, 1>>])]

\* PPCAModel::iterate(weighted dataset): the updated component
ComponentIterate(c, weights) == [c EXCEPT !.fits = @ + 1, !.canonical = FALSE]

\* PPCAModel::to_canonical
ComponentToCanonical(c) == [c EXCEPT !.canonical = TRUE]

SeqsUpTo(S, n) == UNION {[1..k -> S] : k \in 0..n}

Datasets == SeqsUpTo(SampleKinds, MaxN)

\* the raw log-weights a caller hands to PPCAMix::new
RawLogWeights == {LogNaN, NegInf, LogInf, Log(One)}

\* ------------------------------------------------------ results of calls
Panic(msg) == [kind |-> "panic", val |-> msg]
Ok(kind, v) == [kind |-> kind, val |-> v]
NoCall == [op |-> "none"]
NoMix == [output_size |-> 0, models |-> <<>>, log_weights |-> <<>>]
NoJob == [op |-> "none"]

\* a uniqueness test that compares the two ends only
dedup_ends(v) ==
    IF Len(v) >= 1 /\ v[1] = v[Len(v)] THEN <<v[1]>> ELSE v

\* ---------------------------------------------------------- PPCAMix::new
RECURSIVE dedup(_)
\* Vec::dedup: removes consecutive repeated elements
dedup(v) ==
    IF Len(v) <= 1 THEN v
    ELSE IF v[1] = v[2] THEN dedup(Tail(v))
    ELSE <<v[1]>> \o dedup(Tail(v))

new(models, log_weights) ==
    IF ~(Len(models) > 0) THEN Panic("assertion failed: models.len() > 0")
    ELSE IF Len(models) # Len(log_weights) THEN Panic("assertion failed: left == right")
    ELSE LET output_sizes == [i \in 1..Len(models) |-> models[i].output_size]
             unique_sizes == dedup(output_sizes)
         IN  IF Len(unique_sizes) # 1
             THEN Panic("Model output sizes are not the same")
             ELSE Ok("mix", [output_size |-> unique_sizes[1],
                             models |-> models,
                             log_weights |-> robust_log_softmax(log_weights)])

\* ------------------------------------------------------------- accessors
output_size(self) == self.output_size

state_sizes(self) == [i \in 1..Len(self.models) |-> self.models[i].state_size]

RECURSIVE SumNat(_, _)
SumNat(s, i) == IF i > Len(s) THEN 0 ELSE s[i] + SumNat(s, i + 1)

\* a parameter count that forgets the normalization constraint
n_parameters_unconstrained(self) ==
    SumNat([i \in 1..Len(self.models) |-> self.models[i].n_parameters], 1)
        + Len(self.models)

n_parameters(self) ==
    SumNat([i \in 1..Len(self.models) |-> self.models[i].n_parameters], 1)
        + Len(self.models) - 1


\* ------------------------------------------- llks and infer_cluster
\* `self.models.iter().map(|model| model.llks(dataset)).collect()`
llks_table(self, dataset) ==
    [k \in 1..Len(self.models) |-> ComponentLlks(self.models[k], dataset)]

\* the K-vector `llks.iter().map(|llk| llk[i])` of sample i
llks_of_sample(llks, i) == [k \in 1..Len(llks) |-> llks[k][i]]

\* the closure of the parallel map in llks, for sample i
llks_task(self, llks, i) ==
    robust_log_softnorm(VecAdd(llks_of_sample(llks, i), self.log_weights))

\* the closure of the parallel map in infer_cluster, for sample i
infer_cluster_task(self, llks, i) ==
    robust_log_softmax(VecAdd(llks_of_sample(llks, i), self.log_weights))

\* a collect that stores results in the order the tasks complete
collect_in_completion_order(i, out) ==
    Cardinality({j \in 1..Len(out) : out[j] # [kind |-> "empty"]}) + 1

\* rayon's indexed collect: the slot of the output vector that receives the
\* result of task i, given the slots filled so far
collect_slot(i, out) == i

Empty == [kind |-> "empty"]

\* DMatrix::from_rows: refuses an empty list of rows
from_rows(rows) ==
    IF Len(rows) = 0 THEN Panic("At least one row must be given.")
    ELSE Ok("matrix", rows)

\* infer_cluster as a whole (as called by smooth and extrapolate)
infer_cluster(self, dataset) ==
    LET llks == llks_table(self, dataset)
    IN  from_rows([i \in 1..Len(dataset) |-> infer_cluster_task(self, llks, i)])

\* ------------------------------------------- smooth and extrapolate
RECURSIVE VecSumFrom(_, _)
\* Iterator::sum over a non-empty sequence of vectors
VecSumFrom(vs, j) ==
    IF j = Len(vs) THEN vs[j]
    ELSE LET rest == VecSumFrom(vs, j + 1)
         IN  [d \in 1..Len(vs[j]) |-> LinAdd(vs[j][d], rest[d])]

Scale(p, v) == [d \in 1..Len(v) |-> LinMul(p, v[d])]

Min(a, b) == IF a < b THEN a ELSE b

\* the closure of the parallel map in smooth and extrapolate, for sample i:
\* `posterior.iter().zip(&*outputs[i].data).map(|(&pi, o)| pi * o.masked_vector()).sum()`
\* where outputs is the per-component list of reconstructed datasets
blend_task(outputs, clusters, i) ==
    IF i > Len(outputs) THEN Panic("index out of bounds")
    ELSE LET posterior == [k \in 1..Len(clusters[i]) |-> Exp(clusters[i][k])]
             data == outputs[i]
             n == Min(Len(posterior), Len(data))
             terms == [j \in 1..n |-> Scale(posterior[j], masked_vector(data[j]))]
         IN  Ok("sample", unmasked(VecSumFrom(terms, 1)))

\* the parallel map and collect of smooth and extrapolate
blend(outputs, clusters, n) ==
    LET tasks == [i \in 1..n |-> blend_task(outputs, clusters, i)]
    IN  IF \E i \in 1..n : tasks[i].kind = "panic"
        THEN tasks[CHOOSE i \in 1..n : tasks[i].kind = "panic"]
        ELSE Ok("dataset", [i \in 1..n |-> tasks[i].val])

smooth(self, dataset) ==
    LET smooths == [k \in 1..Len(self.models) |-> ComponentSmooth(self.models[k], dataset)]
        clusters == infer_cluster(self, dataset)
    IN  IF clusters.kind = "panic" THEN clusters
        ELSE blend(smooths, clusters.val, Len(dataset))

extrapolate(self, dataset) ==
    LET exrapolated == [k \in 1..Len(self.models) |->
                           ComponentExtrapolate(self.models[k], dataset)]
        clusters == infer_cluster(self, dataset)
    IN  IF clusters.kind = "panic" THEN clusters
        ELSE blend(exrapolated, clusters.val, Len(dataset))

\* -------------------------------------------- iterate and to_canonical
\* the parallel map computing the responsibilities of every sample
log_posteriors_of(self, dataset) ==
    LET llks == llks_table(self, dataset)
    IN  [idx \in 1..Len(dataset) |->
            robust_log_softmax(VecAdd(llks_of_sample(llks, idx), self.log_weights))]

\* `log_posteriors.par_iter().map(|lp| lp[i]).collect()`
posteriors_for(log_posteriors, i) ==
    [n \in 1..Len(log_posteriors) |-> log_posteriors[n][i]]

NoneF == [kind |-> "none"]

\* `.filter_map(|&xi| NotNan::new(xi).ok()).max()`: None when nothing is left
max_posterior(log_posteriors) ==
    LET kept == {n \in 1..Len(log_posteriors) : ~IsNaN(log_posteriors[n].ln)}
    IN  IF kept = {} THEN NoneF
        ELSE [kind |-> "some",
              val |-> log_posteriors[CHOOSE n \in kept :
                        \A m \in kept : ~Less(log_posteriors[n].ln, log_posteriors[m].ln)]]

\* responsibilities with the non-finite entries masked out
unnorm_posteriors_masked(log_posteriors, max) ==
    [n \in 1..Len(log_posteriors) |->
        IF IsNaN(log_posteriors[n].ln) THEN Zero
        ELSE Exp(LogSub(log_posteriors[n], max))]

unnorm_posteriors(log_posteriors, max) ==
    [n \in 1..Len(log_posteriors) |-> Exp(LogSub(log_posteriors[n], max))]

logsum_posteriors(unnorm, max) == LogAdd(Ln(Sum(unnorm)), max)

\* the body of the per-component closure of iterate, for component i
iterate_component(self, log_posteriors, i) ==
    LET lp == posteriors_for(log_posteriors, i)
        mx == max_posterior(lp)
    IN  IF mx.kind = "none" THEN Panic("dataset not empty")
        ELSE LET unnorm == unnorm_posteriors(lp, mx.val)
             IN  Ok("update", [weights |-> unnorm,
                               logsum |-> logsum_posteriors(unnorm, mx.val),
                               model |-> ComponentIterate(self.models[i], unnorm)])

\* iterate: the result, and what each component was handed before any panic
iterate(self, dataset) ==
    LET K == Len(self.models)
        log_posteriors == log_posteriors_of(self, dataset)
        steps == [i \in 1..K |-> iterate_component(self, log_posteriors, i)]
        bad == {i \in 1..K : steps[i].kind = "panic"}
        done == IF bad = {} THEN K ELSE (CHOOSE i \in bad : \A j \in bad : i <= j) - 1
        handed == [i \in 1..done |-> [weights |-> steps[i].val.weights,
                                      logsum |-> steps[i].val.logsum]]
    IN  [log_posteriors |-> log_posteriors,
         handed |-> handed,
         result |-> IF bad # {} THEN steps[done + 1]
                    ELSE Ok("mix", [output_size |-> self.output_size,
                                    models |-> [i \in 1..K |-> steps[i].val.model],
                                    log_weights |-> robust_log_softmax(
                                        [i \in 1..K |-> steps[i].val.logsum])])]

\* a canonicalization that takes the output size from the wrong field
to_canonical_wrong_size(self) ==
    [output_size |-> Len(self.models),
     models |-> [i \in 1..Len(self.models) |-> ComponentToCanonical(self.models[i])],
     log_weights |-> self.log_weights]

\* a canonicalization that resets the mixture weights to uniform
to_canonical_uniform(self) ==
    [output_size |-> self.output_size,
     models |-> [i \in 1..Len(self.models) |-> ComponentToCanonical(self.models[i])],
     log_weights |-> robust_log_softmax([i \in 1..Len(self.models) |-> Log(One)])]

to_canonical(self) ==
    [output_size |-> self.output_size,
     models |-> [i \in 1..Len(self.models) |-> ComponentToCanonical(self.models[i])],
     log_weights |-> self.log_weights]

\* ---------------------------------------------------------------- actions
\* A panic aborts the program: no call follows it.
Idle == job = NoJob /\ mix # NoMix /\ ret.kind # "panic"

\* a caller builds a mixture from at most n components and n raw weights
Construct(n) ==
    /\ mix = NoMix /\ call = NoCall
    /\ \E models \in SeqsUpTo(Catalogue, n), log_weights \in SeqsUpTo(RawLogWeights, n) :
         LET r == new(models, log_weights)
         IN  /\ call' = [op |-> "new", models |-> models, log_weights |-> log_weights]
             /\ ret' = r
             /\ mix' = IF r.kind = "mix" THEN r.val ELSE mix
             /\ built' = IF r.kind = "mix"
                         THEN [K |-> Len(models), output_size |-> r.val.output_size]
                         ELSE built
    /\ UNCHANGED <<trace, job>>

OutputSize ==
    /\ Idle
    /\ call' = [op |-> "output_size"]
    /\ ret' = Ok("usize", output_size(mix))
    /\ UNCHANGED <<mix, built, trace, job>>

StateSizes ==
    /\ Idle
    /\ call' = [op |-> "state_sizes"]
    /\ ret' = Ok("sizes", state_sizes(mix))
    /\ UNCHANGED <<mix, built, trace, job>>

NParameters ==
    /\ Idle
    /\ call' = [op |-> "n_parameters"]
    /\ ret' = Ok("usize", n_parameters(mix))
    /\ UNCHANGED <<mix, built, trace, job>>

\* llks(dataset): the per-component tables are materialized, then one task
\* per sample runs in parallel
LlksStart ==
    /\ Idle
    /\ \E dataset \in Datasets :
         /\ call' = [op |-> "llks", dataset |-> dataset]
         /\ job' = [op |-> "llks", llks |-> llks_table(mix, dataset),
                    pending |-> 1..Len(dataset), order |-> <<>>,
                    out |-> [i \in 1..Len(dataset) |-> Empty]]
    /\ ret' = Ok("none", 0)
    /\ UNCHANGED <<mix, built, trace>>

InferClusterStart ==
    /\ Idle
    /\ \E dataset \in Datasets :
         /\ call' = [op |-> "infer_cluster", dataset |-> dataset]
         /\ job' = [op |-> "infer_cluster", llks |-> llks_table(mix, dataset),
                    pending |-> 1..Len(dataset), order |-> <<>>,
                    out |-> [i \in 1..Len(dataset) |-> Empty]]
    /\ ret' = Ok("none", 0)
    /\ UNCHANGED <<mix, built, trace>>

\* one parallel task runs to completion; tasks run in any order
Task ==
    /\ job # NoJob
    /\ \E i \in job.pending :
         LET r == IF job.op = "llks" THEN llks_task(mix, job.llks, i)
                  ELSE infer_cluster_task(mix, job.llks, i)
         IN  job' = [job EXCEPT !.pending = @ \ {i}, !.order = Append(@, i),
                                !.out[collect_slot(i, job.out)] = r]
    /\ UNCHANGED <<mix, call, ret, built, trace>>

\* all tasks are done: the call returns
Collect ==
    /\ job # NoJob
    /\ job.pending = {}
    /\ ret' = IF job.op = "llks" THEN Ok("vector", job.out) ELSE from_rows(job.out)
    /\ job' = NoJob
    /\ UNCHANGED <<mix, call, built, trace>>

Smooth ==
    /\ Idle
    /\ \E dataset \in Datasets :
         /\ call' = [op |-> "smooth", dataset |-> dataset]
         /\ ret' = smooth(mix, dataset)
    /\ UNCHANGED <<mix, built, trace, job>>

Extrapolate ==
    /\ Idle
    /\ \E dataset \in Datasets :
         /\ call' = [op |-> "extrapolate", dataset |-> dataset]
         /\ ret' = extrapolate(mix, dataset)
    /\ UNCHANGED <<mix, built, trace, job>>

\* iterate reads the receiver and the dataset only and leaves the receiver
\* as it is, so a second iterate on the same receiver returns what the first
\* could have returned: the caller calls it on an instance it has just
\* obtained
Iterate ==
    /\ Idle
    /\ call.op \in {"new", "rebind"}
    /\ mix.models[1].fits < MaxIter
    /\ \E dataset \in Datasets :
         LET r == iterate(mix, dataset)
         IN  /\ call' = [op |-> "iterate", dataset |-> dataset]
             /\ ret' = r.result
             /\ trace' = [log_posteriors |-> r.log_posteriors, handed |-> r.handed]
    /\ UNCHANGED <<mix, built, job>>

ToCanonical ==
    /\ Idle
    /\ call' = [op |-> "to_canonical"]
    /\ ret' = Ok("mix", to_canonical(mix))
    /\ UNCHANGED <<mix, built, trace, job>>

\* the caller goes on with the instance the last update returned
Rebind ==
    /\ Idle
    /\ call.op \in {"iterate", "to_canonical"}
    /\ ret.kind = "mix"
    /\ mix' = ret.val
    /\ call' = [op |-> "rebind"]
    /\ ret' = Ok("none", 0)
    /\ UNCHANGED <<built, trace, job>>

NoTrace == [log_posteriors |-> <<>>, handed |-> <<>>]

Init ==
    /\ mix = NoMix
    /\ call = NoCall
    /\ ret = Ok("none", 0)
    /\ built = [K |-> 0, output_size |-> 0]
    /\ trace = NoTrace
    /\ job = NoJob

\* construction and accounting
NextNew == Construct(MaxArgs) \/ OutputSize \/ StateSizes \/ NParameters

SpecNew == Init /\ [][NextNew]_vars

\* scoring and cluster inference, task by task
NextPar == Construct(MaxK) \/ LlksStart \/ InferClusterStart \/ Task \/ Collect

SpecPar == Init /\ [][NextPar]_vars

\* imputation
NextBlend == Construct(MaxK) \/ Smooth \/ Extrapolate

SpecBlend == Init /\ [][NextBlend]_vars

\* re-estimation and canonicalization
Next == Construct(MaxK) \/ Iterate \/ ToCanonical \/ Rebind

Spec == Init /\ [][Next]_vars

\* ================================================================ claims
\* every mixture the caller holds or was just handed
LiveModels ==
    (IF mix # NoMix THEN {mix} ELSE {})
        \cup (IF ret.kind = "mix" THEN {ret.val} ELSE {})

SumExp(log_weights) == Sum([i \in 1..Len(log_weights) |-> Exp(log_weights[i])])

AllNaN(log_weights) == \A i \in 1..Len(log_weights) : log_weights[i] = LogNaN

\* the K-vector (component k's log-likelihood of sample i + log-weight k)
Scores(self, dataset, i) ==
    [k \in 1..Len(self.models) |->
        LogAdd(ComponentLlk(self.models[k], dataset[i]), self.log_weights[k])]

\* C1: smooth(dataset) returns, for every sample i, the sum over all K
\* components k of exp(cluster_posterior[i,k]) times component k's smoothed
\* vector for sample i.
C1_SmoothBlendsEveryComponent ==
    (call.op = "smooth" /\ ret.kind = "dataset") =>
        \A i \in 1..Len(call.dataset) :
            LET posterior == robust_log_softmax(Scores(mix, call.dataset, i))
                terms == [k \in 1..Len(mix.models) |->
                            Scale(Exp(posterior[k]),
                                  masked_vector(ComponentSmooth(mix.models[k], call.dataset)[i]))]
            IN  ret.val[i].vector = VecSumFrom(terms, 1)

\* C2: smooth and extrapolate, called on a dataset of N samples (stated here
\* for N >= 1, which includes N > K and N < K), run to completion and return
\* exactly N samples, each marked fully observed.
C2_BlendReturnsNSamples ==
    (call.op \in {"smooth", "extrapolate"} /\ Len(call.dataset) >= 1) =>
        /\ ret.kind = "dataset"
        /\ Len(ret.val) = Len(call.dataset)
        /\ \A i \in 1..Len(ret.val) :
             \A d \in 1..Len(ret.val[i].mask) : ret.val[i].mask[d]

\* the arguments meet the three requirements of construction
Valid(models, log_weights) ==
    /\ Len(models) >= 1
    /\ Len(log_weights) = Len(models)
    /\ \A i, j \in 1..Len(models) : models[i].output_size = models[j].output_size

\* C3: construct builds a mixture if and only if the component list is
\* non-empty, there are as many raw log-weights as components and all
\* components have the same output size; otherwise it aborts and no model
\* exists.  On success output_size() is the shared size.
C3_ConstructIffValid ==
    call.op = "new" =>
        IF Valid(call.models, call.log_weights)
        THEN /\ ret.kind = "mix"
             /\ mix = ret.val
             /\ output_size(mix) = call.models[1].output_size
             /\ mix.models = call.models
        ELSE ret.kind = "panic" /\ mix = NoMix

C3_Witness ==
    /\ call.op = "new"
    /\ Len(call.models) = 3 /\ Len(call.log_weights) = 3
    /\ call.models[1].output_size = call.models[3].output_size
    /\ call.models[1].output_size # call.models[2].output_size
    /\ ret.kind = "panic"

\* C4 as claimed: the stored log-weights of every reachable mixture are
\* normalized, exp of the entries sums to 1.
C4_AlwaysNormalized ==
    \A m \in LiveModels : SumExp(m.log_weights) = One

\* raw log-weights on which log-softmax is well defined
Proper(log_weights) ==
    /\ \A i \in 1..Len(log_weights) : log_weights[i] \notin {LogNaN, LogInf}
    /\ \E i \in 1..Len(log_weights) : log_weights[i] # NegInf

\* C4 as amended: the stored log-weights of every reachable mixture are
\* either normalized (exp of the entries sums to 1) or NaN in every entry;
\* after construct they are normalized exactly when the raw log-weights hold
\* no NaN, no +infinity and at least one entry above -infinity.
C4_NormalizedOrNaN ==
    /\ \A m \in LiveModels :
         SumExp(m.log_weights) = One \/ AllNaN(m.log_weights)
    /\ (call.op = "new" /\ ret.kind = "mix") =>
         (Proper(call.log_weights) <=> SumExp(mix.log_weights) = One)

C4_Witness ==
    /\ call.op = "rebind"
    /\ Len(mix.models) = 2
    /\ mix.models[1].fits = 1
    /\ SumExp(mix.log_weights) = One
    /\ mix.log_weights[1] # mix.log_weights[2]
    /\ mix.log_weights[1] # NegInf /\ mix.log_weights[2] # NegInf

\* C5: in every reachable mixture the number of log-weights equals the
\* number of components, both equal the K given at construction, and the
\* output size is the one fixed at construction.
C5_ShapeIsFixed ==
    \A m \in LiveModels :
        /\ Len(m.log_weights) = built.K
        /\ Len(m.models) = built.K
        /\ m.output_size = built.output_size
        /\ \A k \in 1..built.K : m.models[k].output_size = built.output_size

C5_Witness ==
    /\ call.op = "to_canonical"
    /\ ret.kind = "mix"
    /\ mix.models[1].fits = 1
    /\ built.K = 2
    /\ \A k \in 1..2 : ret.val.models[k].canonical /\ ~mix.models[k].canonical

\* C6: under every interleaving of the per-sample tasks, a result only ever
\* lands in the slot of its own sample; llks returns N entries, entry i the
\* log-sum-exp over k of (component k's log-likelihood of sample i + log-weight
\* k), and infer_cluster returns N rows, row i the log-softmax of that K-vector.
C6_ResultsKeepInputOrder ==
    /\ job # NoJob =>
         /\ Len(job.out) = Len(call.dataset)
         /\ \A i \in 1..Len(job.out) :
              IF i \in job.pending THEN job.out[i] = Empty
              ELSE job.out[i] = IF job.op = "llks"
                                THEN robust_log_softnorm(Scores(mix, call.dataset, i))
                                ELSE robust_log_softmax(Scores(mix, call.dataset, i))
    /\ (job = NoJob /\ call.op = "llks") =>
         /\ ret.kind = "vector"
         /\ Len(ret.val) = Len(call.dataset)
         /\ \A i \in 1..Len(ret.val) :
              ret.val[i] = robust_log_softnorm(Scores(mix, call.dataset, i))
    /\ (job = NoJob /\ call.op = "infer_cluster" /\ ret.kind = "matrix") =>
         /\ Len(ret.val) = Len(call.dataset)
         /\ \A i \in 1..Len(ret.val) :
              /\ Len(ret.val[i]) = Len(mix.models)
              /\ ret.val[i] = robust_log_softmax(Scores(mix, call.dataset, i))

\* the tasks of an infer_cluster call completed in reverse order
C6_Witness ==
    /\ job # NoJob
    /\ job.op = "infer_cluster"
    /\ job.pending = {}
    /\ job.order = <<2, 1>>
    /\ Len(mix.models) = 2
    /\ job.out[1] # job.out[2]
    /\ job.out[1][1] # job.out[1][2]

\* C7: iterate and to_canonical leave the receiver exactly as it was, and
\* the mixture to_canonical returns has the receiver's log-weights, K and
\* output size.
C7_ReceiverUnchanged ==
    [][call'.op \in {"iterate", "to_canonical"} =>
          /\ mix' = mix
          /\ call'.op = "to_canonical" =>
               /\ ret'.kind = "mix"
               /\ ret'.val.log_weights = mix.log_weights
               /\ Len(ret'.val.models) = Len(mix.models)
               /\ ret'.val.output_size = mix.output_size]_vars

C7_Witness ==
    /\ call.op = "to_canonical"
    /\ ret.kind = "mix"
    /\ ret.val # mix
    /\ ret.val.log_weights = mix.log_weights
    /\ Len(mix.models) = 2
    /\ mix.log_weights[1] # mix.log_weights[2]
    /\ ~AllNaN(mix.log_weights)

RECURSIVE CountWithWeights(_)
\* every component's parameters, plus one mixture weight per component
CountWithWeights(models) ==
    IF models = <<>> THEN 0
    ELSE Head(models).n_parameters + 1 + CountWithWeights(Tail(models))

\* C8: n_parameters() is the sum of the components' parameter counts plus
\* K - 1; for K = 1 it is the single component's count, and for K components
\* of p parameters each it is K*p + (K-1).
C8_ParameterCount ==
    call.op = "n_parameters" =>
        LET K == Len(mix.models)
            p == mix.models[1].n_parameters
        IN  /\ ret.val + 1 = CountWithWeights(mix.models)
            /\ K = 1 => ret.val = p
            /\ (\A k \in 1..K : mix.models[k].n_parameters = p) =>
                   ret.val = K * p + (K - 1)

C8_Witness ==
    /\ call.op = "n_parameters"
    /\ Len(mix.models) = 1
    /\ ret.val = mix.models[1].n_parameters

\* C9: in iterate, a NaN responsibility of component k is never masked out:
\* iterate aborts, or component k is handed a weight vector that is NaN at
\* that sample and its log total mass is NaN.
C9_NaNIsNotMasked ==
    call.op = "iterate" =>
        /\ Len(trace.handed) < Len(mix.models) => ret.kind = "panic"
        /\ \A k \in 1..Len(trace.handed) :
             \A n \in 1..Len(call.dataset) :
                IsNaN(trace.log_posteriors[n][k].ln) =>
                    /\ IsNaN(trace.handed[k].weights[n])
                    /\ IsNaN(trace.handed[k].logsum.ln)

\* iterate returned although one sample's responsibilities are NaN and
\* another sample's are finite
C9_Witness ==
    /\ call.op = "iterate"
    /\ ret.kind = "mix"
    /\ Len(call.dataset) = 2
    /\ \E k \in 1..Len(trace.handed) :
         \E n, o \in 1..2 :
            /\ IsNaN(trace.log_posteriors[n][k].ln)
            /\ ~IsNaN(trace.log_posteriors[o][k].ln)
            /\ IsNaN(trace.handed[k].weights[n])
            /\ trace.handed[k].weights[o] = One

\* C10: in iterate on a non-empty dataset, the weight vector handed to every
\* component has an entry equal to exactly 1.0 and no entry above 1.0.
C10_SomeWeightIsOne ==
    (call.op = "iterate" /\ Len(call.dataset) >= 1) =>
        \A k \in 1..Len(trace.handed) :
            /\ \E n \in 1..Len(call.dataset) : trace.handed[k].weights[n] = One
            /\ \A n \in 1..Len(call.dataset) :
                 IsNaN(trace.handed[k].weights[n])
                    \/ ~Less(One, trace.handed[k].weights[n])

====
